---- MODULE Spec2Model ----
(***************************************************************************)
(* Model of carbonin/simple-iso (main.go): the process builds a test ISO,  *)
(* serves it over HTTP from a goroutine, drives a Redfish BMC through      *)
(* testVirtualMedia (discover a CD virtual-media resource, eject, insert,  *)
(* reset, sleep, eject) and then waits for a termination signal.           *)
(*                                                                         *)
(* The main goroutine is a program counter (pc); the goroutine launched by *)
(* startHTTPServer, the operating system (signals, HTTP clients) and the   *)
(* remote BMC (answers of the Redfish calls) are the other actors.         *)
(***************************************************************************)
EXTENDS Integers, Sequences, FiniteSets, TLC

\* ---------------------------------------------------------------- bounds
\* system.ManagedBy holds at most MaxManagers manager links
MaxManagers == 2
\* manager.VirtualMedia() returns at most MaxVMs resources
MaxVMs == 2
\* HTTP connections in flight at the same time
MaxConns == 1
\* termination signals delivered to the process
MaxSignals == 2
\* path segments of BASE_URL
MaxBaseSegs == 1

\* ---------------------------------------------------------------- state
VARIABLES
    pc,          \* position of the main goroutine
    exit,        \* "running", or why the process ended
    BMCAddress,  \* Options.BMCAddress
    BaseURL,     \* Options.BaseURL, parsed
    HTTPSKeyFile,  \* Options.HTTPSKeyFile
    HTTPSCertFile, \* Options.HTTPSCertFile
    Port,        \* Options.Port
    dwellEnabled, \* the dwell mode asked for; Options has no field for it
    isoURL,      \* the URL built in main (NoURL before)
    listen,      \* the listen call made by the server goroutine
    fetched,     \* history: answer to the last GET of isoURL
    slept,       \* history: time.Sleep(5 * time.Minute) has elapsed
    insertURL,   \* history: URL handed to InsertMedia
    isoFile,     \* file at isosDir/test-config.iso: absent|previous|partial|current
    hadImage,    \* the file existed when the process started
    buildFault,  \* I/O fault met by createTestISO ("none" when none)
    workDir,     \* the work directory handed to create: file name -> contents
    volumeLabel, \* the volume label handed to create
    image,       \* the filesystem in the file at outPath (NoImage: none)
    server,      \* goroutine of startHTTPServer: none|launched|listening|failed|closed
    inShutdown,  \* server.Shutdown has been called (listener closed)
    lnerr,       \* closing the listener failed inside Shutdown
    conns,       \* HTTP connections in flight
    notify,      \* signal.Notify(stop, ...) has been called
    stop,        \* signals buffered in the channel stop (capacity 1)
    sigs,        \* termination signals delivered so far
    ManagedBy,   \* number of manager links of system.ManagedBy
    mi,          \* index of the manager the discovery loop is at
    isoVM,       \* the selected virtual media (NoVM: nil)
    matches,     \* history: resources seen that support CD, in discovery order
    calls,       \* history: remote calls issued, in order, with their outcome
    insertSrv,   \* history: state of server when InsertMedia was issued
    tvmErr,      \* error returned by testVirtualMedia
    tvmRuns,     \* history: number of invocations of testVirtualMedia
    reported     \* history: errors of testVirtualMedia logged by main

vars == <<pc, exit, BMCAddress, BaseURL, HTTPSKeyFile, HTTPSCertFile, Port, dwellEnabled,
          isoURL, listen, fetched, slept, insertURL, isoFile, hadImage, buildFault, workDir,
          volumeLabel, image, server,
          inShutdown, lnerr, conns, notify, stop, sigs, ManagedBy, mi, isoVM,
          matches, calls, insertSrv, tvmErr, tvmRuns, reported>>

procVars == <<BMCAddress, hadImage, BaseURL, HTTPSKeyFile, HTTPSCertFile, Port, dwellEnabled>>
webVars  == <<isoURL, listen, fetched>>
dwellVars == <<slept, insertURL>>
diskVars == <<isoFile, buildFault, workDir, volumeLabel, image>>
srvVars  == <<server, inShutdown, lnerr, conns>>
sigVars  == <<notify, stop, sigs>>
tvmVars  == <<ManagedBy, mi, isoVM, matches, calls, insertSrv, tvmErr, tvmRuns>>

\* ------------------------------------------------------------- constants
\* redfish.CDMediaType
CDMediaType == "CD"

\* MediaTypes lists a virtual-media resource may report
MediaTypeLists == { <<"USBStick">>, <<"CD", "DVD">>, <<"Floppy", "CD">> }

\* a virtual-media resource as returned by manager.VirtualMedia()
VMs == [MediaTypes : MediaTypeLists, Inserted : BOOLEAN]

RECURSIVE SeqsUpTo(_, _)
SeqsUpTo(S, n) ==
    IF n = 0 THEN { <<>> }
    ELSE LET shorter == SeqsUpTo(S, n - 1)
         IN  shorter \cup { Append(s, x) : s \in { t \in shorter : Len(t) = n - 1 }, x \in S }

\* the answers manager.VirtualMedia() may give
VMLists == SeqsUpTo(VMs, MaxVMs)

\* var isoVM *redfish.VirtualMedia (nil)
NoVM == [mgr |-> 0, idx |-> 0, Inserted |-> FALSE]

\* the nil error and the errors testVirtualMedia builds: the context added by
\* fmt.Errorf ("" when the error is returned as it came) and the failing call
NoErr == [ctx |-> "nil", cause |-> "nil"]
Err(ctx, cause) == [ctx |-> ctx, cause |-> cause]

Call(op, m, i, ok) == [op |-> op, mgr |-> m, idx |-> i, ok |-> ok]

TvmPcs == { "tvm_parse", "tvm_connect", "tvm_system", "tvm_manager", "tvm_vms",
            "tvm_select", "tvm_eject", "tvm_insert", "tvm_reset", "tvm_sleep",
            "tvm_final_eject", "tvm_ret" }

Running == exit = "running"

\* ------------------------------------------------------- pure functions
\* for _, vmType := range vm.MediaTypes { if vmType == redfish.CDMediaType {...; break} }
RECURSIVE HasCDFrom(_, _)
HasCDFrom(types, k) ==
    IF k > Len(types) THEN FALSE
    ELSE IF types[k] = CDMediaType THEN TRUE
    ELSE HasCDFrom(types, k + 1)

HasCD(types) == HasCDFrom(types, 1)

VMRef(m, i, vm) == [mgr |-> m, idx |-> i, Inserted |-> vm.Inserted]

\* for _, vm := range vms { ... isoVM = vm; break ... }: the break leaves the
\* loop over vm.MediaTypes only, so the loop over vms goes on and a later
\* resource that supports CD replaces the one assigned before
RECURSIVE ScanVMs(_, _, _, _)
ScanVMs(m, vms, i, cur) ==
    IF i > Len(vms) THEN cur
    ELSE ScanVMs(m, vms, i + 1,
                 IF HasCD(vms[i].MediaTypes) THEN VMRef(m, i, vms[i]) ELSE cur)

\* history: the resources of manager m that support CD, in resource order
RECURSIVE CDRefs(_, _, _)
CDRefs(m, vms, i) ==
    IF i > Len(vms) THEN <<>>
    ELSE (IF CDMediaType \in { vms[i].MediaTypes[k] : k \in 1..Len(vms[i].MediaTypes) }
          THEN << <<m, i>> >> ELSE <<>>) \o CDRefs(m, vms, i + 1)

\* values of BMC_ADDRESS: unset, a URL, and a string url.Parse rejects
BMCAddresses == { "", "https://bmc/redfish/v1/Systems/1", ":bmc" }

\* bmcURL, err := url.Parse(Options.BMCAddress): "missing protocol scheme"
ParseOK(addr) == addr # ":bmc"

\* mutant of EjectFirst: the eject before the insert is skipped
EjectFirstNever(vm) == FALSE

\* mutant of EjectFirst: an eject is issued before every insert
EjectFirstAlways(vm) == TRUE

\* if isoVM.Inserted { EjectMedia() }
EjectFirst(vm) == vm.Inserted

\* mutant of NotFound: a nil isoVM is not detected
NotFoundNever(vm) == FALSE

\* if isoVM == nil { return fmt.Errorf("failed to find CD type virtual media") }
NotFound(vm) == vm = NoVM

\* mutant of ShouldOrchestrate: the orchestration runs whatever the address
ShouldOrchestrateAlways(addr) == TRUE

\* if Options.BMCAddress != "" { testVirtualMedia(...) }
ShouldOrchestrate(addr) == addr # ""

\* if err := testVirtualMedia(log, isoURL); err != nil { log.WithError(err).Errorf(...) }
\* "log": the error is logged and main goes on; "fatal" would end the process
OnTvmError == "log"

\* mutant of AfterCall: the error of a remote call is ignored
AfterCallIgnore(ok, next) == next

\* where testVirtualMedia goes after a remote call: on when it succeeded,
\* to its return when it failed
AfterCall(ok, next) == IF ok THEN next ELSE "tvm_ret"

\* diskfs.Create(outPath, ...) of go-diskfs v1.3.0 (go.mod) opens outPath with
\* O_RDWR|O_EXCL|O_CREATE: "the provided device must not exist"
DeviceExists(file) == file # "absent"

BuildFaults == { "none", "mkdirtemp", "write", "alloc", "format", "finalize" }

\* a directory: file name -> contents; os.MkdirTemp makes an empty one
EmptyDir == [f \in {} |-> ""]

\* os.WriteFile(filepath.Join(dir, "config"), []byte("config-data"), 0644)
createInputData(dir) ==
    [f \in (DOMAIN dir) \cup { "config" } |->
        IF f = "config" THEN "config-data" ELSE dir[f]]

\* disk.FilesystemSpec{Partition: 0, FSType: TypeISO9660, VolumeLabel, WorkDir}
FilesystemSpec(label, dir) ==
    [FSType |-> "iso9660", VolumeLabel |-> label, WorkDir |-> dir]

\* iso9660.FinalizeOptions{RockRidge: true, VolumeIdentifier: volumeLabel}
FinalizeOptions(label) == [RockRidge |-> TRUE, VolumeIdentifier |-> label]

NoImage == [closed |-> FALSE, volume |-> "", rockRidge |-> FALSE, files |-> EmptyDir]

\* iso.Finalize(options) of go-diskfs: writes the files of the work directory
\* and the primary volume descriptor, and closes the filesystem
Finalize(fspec, options) ==
    [closed |-> TRUE, volume |-> options.VolumeIdentifier,
     rockRidge |-> options.RockRidge, files |-> fspec.WorkDir]

\* the image of a file left at outPath by an earlier run
PreviousImage == Finalize(FilesystemSpec("previous", EmptyDir), FinalizeOptions("previous"))

\* create(outPath, workDir, volumeLabel): the error, the file left at outPath
\* and the filesystem written to it
create(file, dir, label, fault) ==
    IF DeviceExists(file) \/ fault = "alloc"
    THEN [err |-> "create", file |-> file, image |-> NoImage]
    ELSE IF fault = "format"
    THEN [err |-> "format", file |-> "partial", image |-> NoImage]
    ELSE IF fault = "finalize"
    THEN [err |-> "finalize", file |-> "partial", image |-> NoImage]
    ELSE [err |-> "nil", file |-> "current",
          image |-> Finalize(FilesystemSpec(label, dir), FinalizeOptions(label))]

\* createTestISO(log, dataDir, isoPath)
createTestISO(file, fault) ==
    IF fault = "mkdirtemp"
    THEN [err |-> "failed to create iso work dir", file |-> file,
          image |-> NoImage, workDir |-> EmptyDir]
    ELSE IF fault = "write"
    THEN [err |-> "failed to write input data", file |-> file,
          image |-> NoImage, workDir |-> EmptyDir]
    ELSE LET dir == createInputData(EmptyDir)
             r   == create(file, dir, "test-config", fault)
         IN  [err |-> IF r.err # "nil" THEN "failed to create iso" ELSE "nil",
              file |-> r.file, image |-> r.image, workDir |-> dir]

\* ------------------------------------------------------------ URLs, route
\* const testISOName = "test-config.iso"
testISOName == "test-config.iso"

\* a parsed URL: host ("" for a relative URL) and the segments of its path
\* as written ("" for an empty segment, as a trailing slash leaves);
\* ok is FALSE for a string url.Parse rejects
URL(ok, host, segs) == [ok |-> ok, host |-> host, segs |-> segs]

NoURL == URL(FALSE, "", <<>>)

\* a value of BASE_URL url.Parse rejects
BadURL == URL(FALSE, "%", <<>>)

\* BASE_URL=http://host:8080
DefaultBase == URL(TRUE, "host:8080", <<>>)

\* path.Join inside url.JoinPath: empty segments are dropped
CleanPath(segs) == SelectSeq(segs, LAMBDA x : x # "")

\* url.JoinPath(base, elem...): base's path followed by elem, cleaned
JoinPath(base, elems) == URL(base.ok, base.host, CleanPath(base.segs \o elems))

\* isoURL, err := url.JoinPath(Options.BaseURL, "images", testISOName)
BuildISOURL(base) == JoinPath(base, <<"images", testISOName>>)

\* http.Handle("/images/", http.StripPrefix("/images/", http.FileServer(http.Dir(isosDir)))):
\* what a GET of the path segs answers, given the file at isosDir/test-config.iso
Route(segs, file) ==
    IF segs = <<>> \/ segs[1] # "images" THEN "404"
    ELSE LET rest == Tail(segs)
         IN  IF rest = <<>> THEN "listing"
             ELSE IF rest = <<testISOName>> /\ file # "absent" THEN file
             ELSE "404"

\* the listen call of the goroutine: not made yet
NoListen == [mode |-> "none", addr |-> "", n |-> 0]

\* mutant of ListenMode: TLS as soon as one of the two files is given
ListenModeEither(key, cert) == IF key # "" \/ cert # "" THEN "https" ELSE "http"

\* if httpsKeyFile != "" && httpsCertFile != "" { ListenAndServeTLS } else { ListenAndServe }
ListenMode(key, cert) == IF key # "" /\ cert # "" THEN "https" ELSE "http"

\* Addr: fmt.Sprintf(":%s", port)
ServerAddr(port) == <<":", port>>

\* values of BASE_URL: one that does not parse, and every URL with no host or
\* the host the server is reached at, and a path of up to MaxBaseSegs segments
BaseHosts == { "", "host:8080" }
BasePathSegs == { "", "files", "images" }
BaseURLs ==
    { BadURL } \cup
    { URL(TRUE, h, p) : h \in BaseHosts, p \in SeqsUpTo(BasePathSegs, MaxBaseSegs) }

KeyFiles == { "", "tls.key" }
CertFiles == { "", "tls.crt" }
Ports == { "8080", "8443" }

\* ------------------------------------------------------------------ Init
\* the state when main starts, for the given ranges of the configuration
InitWith(bmcs, bases, keys, certs, ports, dwells) ==
    /\ BMCAddress \in bmcs
    /\ BaseURL \in bases
    /\ HTTPSKeyFile \in keys
    /\ HTTPSCertFile \in certs
    /\ Port \in ports
    /\ dwellEnabled \in dwells
    /\ isoURL = NoURL
    /\ listen = NoListen
    /\ fetched = "none"
    /\ slept = FALSE
    /\ insertURL = NoURL
    /\ pc = "config"
    /\ exit = "running"
    /\ isoFile \in { "absent", "previous" }
    /\ hadImage = (isoFile = "previous")
    /\ buildFault = "none"
    /\ workDir = EmptyDir
    /\ volumeLabel = ""
    /\ image = (IF isoFile = "previous" THEN PreviousImage ELSE NoImage)
    /\ server = "none"
    /\ inShutdown = FALSE
    /\ lnerr = FALSE
    /\ conns = 0
    /\ notify = FALSE
    /\ stop = 0
    /\ sigs = 0
    /\ ManagedBy = 0
    /\ mi = 0
    /\ isoVM = NoVM
    /\ matches = <<>>
    /\ calls = <<>>
    /\ insertSrv = "none"
    /\ tvmErr = NoErr
    /\ tvmRuns = 0
    /\ reported = 0

\* the process with the orchestration: every BMC address, BASE_URL one URL
\* without a path or a string that does not parse, plain HTTP on port 8080
Init == InitWith(BMCAddresses, { DefaultBase, BadURL }, { "" }, { "" }, { "8080" }, { TRUE })

\* ------------------------------------------------------------------ main
\* envconfig.Process and logrus.ParseLevel: log.Fatal on error
ProcessConfig ==
    /\ Running /\ pc = "config"
    /\ \E ok \in BOOLEAN :
         IF ok THEN pc' = "mkdir" /\ exit' = exit
               ELSE pc' = pc /\ exit' = "config"
    /\ UNCHANGED <<webVars, dwellVars, procVars, diskVars, srvVars, sigVars, tvmVars, reported>>

\* os.MkdirAll(isosDir, 0755): Fatal on error
MkdirIsos ==
    /\ Running /\ pc = "mkdir"
    /\ \E ok \in BOOLEAN :
         IF ok THEN pc' = "build" /\ exit' = exit
               ELSE pc' = pc /\ exit' = "mkdir"
    /\ UNCHANGED <<webVars, dwellVars, procVars, diskVars, srvVars, sigVars, tvmVars, reported>>

\* mutant of CreateTestISO: the error of createTestISO is not fatal
CreateTestISOIgnore ==
    /\ Running /\ pc = "build"
    /\ \E fault \in BuildFaults :
         LET r == createTestISO(isoFile, fault)
         IN  /\ buildFault' = fault
             /\ isoFile' = r.file
             /\ workDir' = r.workDir
             /\ volumeLabel' = (IF fault \in { "mkdirtemp", "write" } THEN volumeLabel ELSE "test-config")
             /\ image' = (IF r.file = isoFile THEN image ELSE r.image)
             /\ pc' = "url" /\ exit' = exit
    /\ UNCHANGED <<webVars, dwellVars, procVars, srvVars, sigVars, tvmVars, reported>>

\* if err := createTestISO(...); err != nil { log.Fatal(err) }
CreateTestISO ==
    /\ Running /\ pc = "build"
    /\ \E fault \in BuildFaults :
         LET r == createTestISO(isoFile, fault)
         IN  /\ buildFault' = fault
             /\ isoFile' = r.file
             /\ workDir' = r.workDir
             /\ volumeLabel' = (IF fault \in { "mkdirtemp", "write" } THEN volumeLabel ELSE "test-config")
             /\ image' = (IF r.file = isoFile THEN image ELSE r.image)
             /\ IF r.err = "nil" THEN pc' = "url" /\ exit' = exit
                                 ELSE pc' = pc /\ exit' = "build"
    /\ UNCHANGED <<webVars, dwellVars, procVars, srvVars, sigVars, tvmVars, reported>>

\* isoURL, err := url.JoinPath(Options.BaseURL, "images", testISOName)
JoinURL ==
    /\ Running /\ pc = "url"
    /\ LET u == BuildISOURL(BaseURL)
       IN  IF u.ok THEN pc' = "start" /\ exit' = exit /\ isoURL' = u
                   ELSE pc' = pc /\ exit' = "url" /\ isoURL' = isoURL
    /\ UNCHANGED <<listen, fetched, dwellVars, procVars, diskVars, srvVars, sigVars, tvmVars, reported>>

\* server := startHTTPServer(...): registers the route, launches the goroutine
\* and returns at once
StartHTTPServer ==
    /\ Running /\ pc = "start"
    /\ server' = "launched"
    /\ pc' = "bmc"
    /\ UNCHANGED <<webVars, dwellVars, exit, procVars, diskVars, inShutdown, lnerr, conns, sigVars,
                   tvmVars, reported>>

\* if Options.BMCAddress != "" { testVirtualMedia } ; waitForShutDown
CheckBMC ==
    /\ Running /\ pc = "bmc"
    /\ IF ShouldOrchestrate(BMCAddress)
       THEN pc' = "tvm_parse" /\ tvmRuns' = tvmRuns + 1
       ELSE pc' = "notify" /\ tvmRuns' = tvmRuns
    /\ UNCHANGED <<webVars, dwellVars, exit, procVars, diskVars, srvVars, sigVars, ManagedBy, mi,
                   isoVM, matches, calls, insertSrv, tvmErr, reported>>

\* ------------------------------------------------------ testVirtualMedia
\* bmcURL, err := url.Parse(Options.BMCAddress)
TvmParse ==
    /\ Running /\ pc = "tvm_parse"
    /\ IF ParseOK(BMCAddress)
       THEN pc' = "tvm_connect" /\ tvmErr' = tvmErr
       ELSE pc' = "tvm_ret" /\ tvmErr' = Err("failed to parse BMC Address", "url.Parse")
    /\ UNCHANGED <<webVars, dwellVars, exit, procVars, diskVars, srvVars, sigVars, ManagedBy, mi,
                   isoVM, matches, calls, insertSrv, tvmRuns, reported>>

\* client, err := gofish.Connect(config)
TvmConnect ==
    /\ Running /\ pc = "tvm_connect"
    /\ \E ok \in BOOLEAN :
         /\ calls' = Append(calls, Call("Connect", 0, 0, ok))
         /\ pc' = AfterCall(ok, "tvm_system")
         /\ tvmErr' = IF ok THEN tvmErr ELSE Err("failed to connect to BMC", "Connect")
    /\ UNCHANGED <<webVars, dwellVars, exit, procVars, diskVars, srvVars, sigVars, ManagedBy, mi,
                   isoVM, matches, insertSrv, tvmRuns, reported>>

\* system, err := redfish.GetComputerSystem(client, bmcURL.Path); the loop
\* over system.ManagedBy starts (n links)
TvmSystem ==
    /\ Running /\ pc = "tvm_system"
    /\ \E ok \in BOOLEAN, n \in 0..MaxManagers :
         /\ calls' = Append(calls, Call("GetComputerSystem", 0, 0, ok))
         /\ ManagedBy' = IF ok THEN n ELSE ManagedBy
         /\ mi' = IF ok THEN 1 ELSE mi
         /\ pc' = AfterCall(ok, IF n = 0 THEN "tvm_select" ELSE "tvm_manager")
         /\ tvmErr' = IF ok THEN tvmErr ELSE Err("failed to get computer system", "GetComputerSystem")
    /\ UNCHANGED <<webVars, dwellVars, exit, procVars, diskVars, srvVars, sigVars, isoVM, matches,
                   insertSrv, tvmRuns, reported>>

\* manager, err := redfish.GetManager(client, m); if err != nil { return err }
TvmManager ==
    /\ Running /\ pc = "tvm_manager"
    /\ \E ok \in BOOLEAN :
         /\ calls' = Append(calls, Call("GetManager", mi, 0, ok))
         /\ pc' = AfterCall(ok, "tvm_vms")
         /\ tvmErr' = IF ok THEN tvmErr ELSE Err("", "GetManager")
    /\ UNCHANGED <<webVars, dwellVars, exit, procVars, diskVars, srvVars, sigVars, ManagedBy, mi,
                   isoVM, matches, insertSrv, tvmRuns, reported>>

\* vms, err := manager.VirtualMedia(); if err != nil { return err }; the scan
\* of vms; then the next manager, or the end of the loop
TvmVirtualMedia ==
    /\ Running /\ pc = "tvm_vms"
    /\ \E ok \in BOOLEAN, vms \in VMLists :
         /\ calls' = Append(calls, Call("VirtualMedia", mi, 0, ok))
         /\ isoVM' = IF ok THEN ScanVMs(mi, vms, 1, isoVM) ELSE isoVM
         /\ matches' = IF ok THEN matches \o CDRefs(mi, vms, 1) ELSE matches
         /\ mi' = IF ok THEN mi + 1 ELSE mi
         /\ pc' = AfterCall(ok, IF mi = ManagedBy THEN "tvm_select" ELSE "tvm_manager")
         /\ tvmErr' = IF ok THEN tvmErr ELSE Err("", "VirtualMedia")
    /\ UNCHANGED <<webVars, dwellVars, exit, procVars, diskVars, srvVars, sigVars, ManagedBy,
                   insertSrv, tvmRuns, reported>>

\* if isoVM == nil { return fmt.Errorf(...) }; if isoVM.Inserted { ... }
TvmSelect ==
    /\ Running /\ pc = "tvm_select"
    /\ IF NotFound(isoVM)
       THEN pc' = "tvm_ret" /\ tvmErr' = Err("failed to find CD type virtual media", "nil")
       ELSE /\ pc' = IF EjectFirst(isoVM) THEN "tvm_eject" ELSE "tvm_insert"
            /\ tvmErr' = tvmErr
    /\ UNCHANGED <<webVars, dwellVars, exit, procVars, diskVars, srvVars, sigVars, ManagedBy, mi,
                   isoVM, matches, calls, insertSrv, tvmRuns, reported>>

\* if err := isoVM.EjectMedia(); err != nil { return ... } (before the insert)
TvmEject ==
    /\ Running /\ pc = "tvm_eject"
    /\ \E ok \in BOOLEAN :
         /\ calls' = Append(calls, Call("EjectMedia", isoVM.mgr, isoVM.idx, ok))
         /\ pc' = AfterCall(ok, "tvm_insert")
         /\ tvmErr' = IF ok THEN tvmErr ELSE Err("failed to eject media", "EjectMedia")
    /\ UNCHANGED <<webVars, dwellVars, exit, procVars, diskVars, srvVars, sigVars, ManagedBy, mi,
                   isoVM, matches, insertSrv, tvmRuns, reported>>

\* if err := isoVM.InsertMedia(isoURL, true, true); err != nil { return ... }
TvmInsert ==
    /\ Running /\ pc = "tvm_insert"
    /\ \E ok \in BOOLEAN :
         /\ calls' = Append(calls, Call("InsertMedia", isoVM.mgr, isoVM.idx, ok))
         /\ pc' = AfterCall(ok, "tvm_reset")
         /\ tvmErr' = IF ok THEN tvmErr ELSE Err("failed to insert media", "InsertMedia")
    /\ insertSrv' = server
    /\ insertURL' = isoURL
    /\ UNCHANGED <<webVars, slept, exit, procVars, diskVars, srvVars, sigVars, ManagedBy, mi,
                   isoVM, matches, tvmRuns, reported>>

\* if err := system.Reset(redfish.OnResetType); err != nil { return ... }
TvmReset ==
    /\ Running /\ pc = "tvm_reset"
    /\ \E ok \in BOOLEAN :
         /\ calls' = Append(calls, Call("Reset", 0, 0, ok))
         /\ pc' = AfterCall(ok, "tvm_sleep")
         /\ tvmErr' = IF ok THEN tvmErr ELSE Err("failed to boot system", "Reset")
    /\ UNCHANGED <<webVars, dwellVars, exit, procVars, diskVars, srvVars, sigVars, ManagedBy, mi,
                   isoVM, matches, insertSrv, tvmRuns, reported>>

\* time.Sleep(5 * time.Minute)
TvmSleep ==
    /\ Running /\ pc = "tvm_sleep"
    /\ pc' = "tvm_final_eject"
    /\ slept' = TRUE
    /\ UNCHANGED <<webVars, insertURL, exit, procVars, diskVars, srvVars, sigVars, tvmVars, reported>>

\* mutant of TvmFinalEject: a failure of the final eject is swallowed and
\* testVirtualMedia returns nil
TvmFinalEjectSwallow ==
    /\ Running /\ pc = "tvm_final_eject"
    /\ \E ok \in BOOLEAN :
         /\ calls' = Append(calls, Call("EjectMedia", isoVM.mgr, isoVM.idx, ok))
         /\ pc' = "tvm_ret"
         /\ tvmErr' = tvmErr
    /\ UNCHANGED <<webVars, dwellVars, exit, procVars, diskVars, srvVars, sigVars, ManagedBy, mi,
                   isoVM, matches, insertSrv, tvmRuns, reported>>

\* if err := isoVM.EjectMedia(); err != nil { return ... }; return nil
TvmFinalEject ==
    /\ Running /\ pc = "tvm_final_eject"
    /\ \E ok \in BOOLEAN :
         /\ calls' = Append(calls, Call("EjectMedia", isoVM.mgr, isoVM.idx, ok))
         /\ pc' = "tvm_ret"
         /\ tvmErr' = IF ok THEN tvmErr ELSE Err("failed to eject media", "EjectMedia")
    /\ UNCHANGED <<webVars, dwellVars, exit, procVars, diskVars, srvVars, sigVars, ManagedBy, mi,
                   isoVM, matches, insertSrv, tvmRuns, reported>>

\* main: if err := testVirtualMedia(...); err != nil { log...Errorf(...) }
TvmReturn ==
    /\ Running /\ pc = "tvm_ret"
    /\ IF tvmErr = NoErr
       THEN pc' = "notify" /\ reported' = reported /\ exit' = exit
       ELSE IF OnTvmError = "log"
       THEN pc' = "notify" /\ reported' = reported + 1 /\ exit' = exit
       ELSE pc' = pc /\ reported' = reported + 1 /\ exit' = "orchestration"
    /\ UNCHANGED <<webVars, dwellVars, procVars, diskVars, srvVars, sigVars, tvmVars>>

\* ------------------------------------------------------- waitForShutDown
\* stop := make(chan os.Signal, 1); signal.Notify(stop, os.Interrupt, SIGINT, SIGTERM)
Notify ==
    /\ Running /\ pc = "notify"
    /\ notify' = TRUE
    /\ pc' = "recv"
    /\ UNCHANGED <<webVars, dwellVars, exit, procVars, diskVars, srvVars, stop, sigs, tvmVars, reported>>

\* <-stop
RecvStop ==
    /\ Running /\ pc = "recv"
    /\ stop > 0
    /\ stop' = stop - 1
    /\ pc' = "shutdown"
    /\ UNCHANGED <<webVars, dwellVars, exit, procVars, diskVars, srvVars, notify, sigs, tvmVars, reported>>

\* server.Shutdown(context.Background()), its first part: the server is marked
\* as shutting down and its listeners are closed (closing may fail: lnerr)
Shutdown ==
    /\ Running /\ pc = "shutdown"
    /\ inShutdown' = TRUE
    /\ \E e \in (IF server = "listening" THEN BOOLEAN ELSE { FALSE }) : lnerr' = e
    /\ pc' = "shutdown_wait"
    /\ UNCHANGED <<webVars, dwellVars, exit, procVars, diskVars, server, conns, sigVars, tvmVars, reported>>

\* server.Shutdown(context.Background()), its second part: it returns lnerr
\* once no connection is in flight; the context has no deadline and is never
\* cancelled, so nothing else makes it return.  On nil: "server terminated
\* gracefully", waitForShutDown and main return
ShutdownReturn ==
    /\ Running /\ pc = "shutdown_wait"
    /\ conns = 0
    /\ IF lnerr THEN pc' = "close" /\ exit' = exit
                ELSE pc' = "done" /\ exit' = "returned"
    /\ UNCHANGED <<webVars, dwellVars, procVars, diskVars, srvVars, sigVars, tvmVars, reported>>

\* if err := server.Close(); err != nil { log.WithError(err).Fatal(...) }
CloseServer ==
    /\ Running /\ pc = "close"
    /\ conns' = 0
    /\ pc' = "done"
    /\ \E ok \in BOOLEAN : exit' = IF ok THEN "returned" ELSE "close"
    /\ UNCHANGED <<webVars, dwellVars, procVars, diskVars, server, inShutdown, lnerr, sigVars,
                   tvmVars, reported>>

\* ------------------------------------------- goroutine of startHTTPServer
\* server.ListenAndServe / ListenAndServeTLS binds the port and serves
ServerListen ==
    /\ Running /\ server = "launched" /\ ~inShutdown
    /\ server' = "listening"
    /\ listen' = [mode |-> ListenMode(HTTPSKeyFile, HTTPSCertFile),
                  addr |-> ServerAddr(Port), n |-> listen.n + 1]
    /\ UNCHANGED <<isoURL, fetched, dwellVars, pc, exit, procVars, diskVars, inShutdown, lnerr, conns,
                   sigVars, tvmVars, reported>>

\* the listen call fails (the port cannot be bound) and returns its error to
\* the goroutine
ServerListenFail ==
    /\ Running /\ server = "launched" /\ ~inShutdown
    /\ server' = "failed"
    /\ listen' = [mode |-> ListenMode(HTTPSKeyFile, HTTPSCertFile),
                  addr |-> ServerAddr(Port), n |-> listen.n + 1]
    /\ UNCHANGED <<isoURL, fetched, dwellVars, pc, exit, procVars, diskVars, inShutdown, lnerr, conns,
                   sigVars, tvmVars, reported>>

\* if err != http.ErrServerClosed { log.WithError(err).Fatalf(...) }: the
\* goroutine ends the process; nothing orders this step against main
ServerFatal ==
    /\ Running /\ server = "failed"
    /\ exit' = "listener"
    /\ UNCHANGED <<webVars, dwellVars, pc, procVars, diskVars, srvVars, sigVars, tvmVars, reported>>

\* after Shutdown the call returns http.ErrServerClosed and the goroutine
\* ends; a goroutine that had not run yet makes its listen call first, which
\* returns http.ErrServerClosed at once
ServerClosed ==
    /\ Running /\ server \in { "launched", "listening" } /\ inShutdown
    /\ server' = "closed"
    /\ listen' = (IF server = "launched"
                  THEN [mode |-> ListenMode(HTTPSKeyFile, HTTPSCertFile),
                        addr |-> ServerAddr(Port), n |-> listen.n + 1]
                  ELSE listen)
    /\ UNCHANGED <<isoURL, fetched, dwellVars, pc, exit, procVars, diskVars, inShutdown, lnerr, conns,
                   sigVars, tvmVars, reported>>

\* ------------------------------------------------------------ environment
\* SIGINT or SIGTERM is delivered.  After signal.Notify it is sent to stop
\* without blocking (dropped when the buffer is full); before, the Go runtime
\* takes the default action for SIGINT and SIGTERM: the program exits
Signal ==
    /\ Running /\ sigs < MaxSignals
    /\ sigs' = sigs + 1
    /\ IF notify
       THEN stop' = (IF stop < 1 THEN stop + 1 ELSE stop) /\ exit' = exit
       ELSE stop' = stop /\ exit' = "signal"
    /\ UNCHANGED <<webVars, dwellVars, pc, procVars, diskVars, srvVars, notify, tvmVars, reported>>

\* an HTTP client connects and its request is in flight
ConnOpen ==
    /\ Running /\ server = "listening" /\ ~inShutdown
    /\ conns < MaxConns
    /\ conns' = conns + 1
    /\ UNCHANGED <<webVars, dwellVars, pc, exit, procVars, diskVars, server, inShutdown, lnerr,
                   sigVars, tvmVars, reported>>

\* a request in flight completes (it may never do)
ConnDone ==
    /\ Running /\ conns > 0
    /\ conns' = conns - 1
    /\ UNCHANGED <<webVars, dwellVars, pc, exit, procVars, diskVars, server, inShutdown, lnerr,
                   sigVars, tvmVars, reported>>

\* exit status of the process: 0 when main returned, 1 from log.Fatal
\* (os.Exit(1)), 2 when the runtime ended it on a signal
ExitCode(e) == IF e = "returned" THEN 0 ELSE IF e = "signal" THEN 2 ELSE 1

\* --------------------------------------------------------- specification
MainNext ==
    \/ ProcessConfig \/ MkdirIsos \/ CreateTestISO \/ JoinURL
    \/ StartHTTPServer \/ CheckBMC
    \/ TvmParse \/ TvmConnect \/ TvmSystem \/ TvmManager \/ TvmVirtualMedia
    \/ TvmSelect \/ TvmEject \/ TvmInsert \/ TvmReset \/ TvmSleep
    \/ TvmFinalEject \/ TvmReturn
    \/ Notify \/ RecvStop \/ Shutdown \/ ShutdownReturn \/ CloseServer

ServerNext == ServerListen \/ ServerListenFail \/ ServerFatal \/ ServerClosed

EnvNext == Signal \/ ConnOpen \/ ConnDone

Next == MainNext \/ ServerNext \/ EnvNext

Spec == Init /\ [][Next]_vars

\* the Go scheduler runs every runnable goroutine: main and the server
\* goroutine take their steps; signals and clients are under no obligation
FairSpec == Spec /\ WF_vars(MainNext) /\ WF_vars(ServerNext)

\* ------------------------------------- configuration and serving alone
\* a client (the BMC told to insert isoURL) sends GET for the path of isoURL
\* to the server; a URL without a host cannot be fetched
Fetch ==
    /\ Running /\ server = "listening" /\ ~inShutdown
    /\ isoURL.ok
    /\ fetched' = (IF isoURL.host = "" THEN "unreachable"
                                       ELSE Route(isoURL.segs, isoFile))
    /\ UNCHANGED <<isoURL, listen, dwellVars, pc, exit, procVars, diskVars, srvVars,
                   sigVars, tvmVars, reported>>

\* the process without a BMC address, over every configuration
ConfigInit == InitWith({ "" }, BaseURLs, KeyFiles, CertFiles, Ports, { TRUE })

ConfigNext ==
    \/ ProcessConfig \/ MkdirIsos \/ CreateTestISO \/ JoinURL
    \/ StartHTTPServer \/ CheckBMC
    \/ Notify \/ RecvStop \/ Shutdown \/ ShutdownReturn \/ CloseServer
    \/ ServerListen \/ ServerListenFail \/ ServerFatal \/ ServerClosed
    \/ Signal \/ ConnOpen \/ ConnDone
    \/ Fetch

ConfigSpec == ConfigInit /\ [][ConfigNext]_vars

\* ------------------------------------------------ the dwell mode asked for
\* the process started with the dwell asked for and with the dwell not asked
\* for; no step of the process reads the mode
DwellInit == InitWith(BMCAddresses, { DefaultBase }, { "" }, { "" }, { "8080" }, BOOLEAN)

DwellSpec == DwellInit /\ [][Next]_vars

\* ================================================================ claims
CallIdx == 1..Len(calls)

Issued(op) == \E k \in CallIdx : calls[k].op = op

\* the discovery loop ran to its end: every manager of system.ManagedBy was
\* looked up and its virtual media enumerated
DiscoveryDone ==
    /\ \E k \in CallIdx : calls[k].op = "GetComputerSystem" /\ calls[k].ok
    /\ mi > ManagedBy

\* testVirtualMedia has returned to main and main has handled its result
Returned == tvmRuns = 1 /\ pc \notin TvmPcs /\ pc # "bmc"

\* the eject after the reset failed
FinalEjectFailed ==
    \E k \in CallIdx :
        /\ calls[k].op = "EjectMedia" /\ ~calls[k].ok
        /\ \E j \in 1..(k - 1) : calls[j].op = "Reset"

\* C1: every EjectMedia and InsertMedia call is issued on the FIRST resource
\* that supports CD in discovery order (manager order, then resource order),
\* also when several resources match.
C1_FirstMatchSelected ==
    \A k \in CallIdx :
        calls[k].op \in { "EjectMedia", "InsertMedia" } =>
            /\ matches # <<>>
            /\ <<calls[k].mgr, calls[k].idx>> = matches[1]

\* C2: when the selected resource reports Inserted, every InsertMedia call is
\* preceded by a successful EjectMedia call on the same resource.
C2_EjectBeforeInsert ==
    \A k \in CallIdx :
        (calls[k].op = "InsertMedia" /\ isoVM.Inserted) =>
            \E j \in 1..(k - 1) :
                calls[j] = Call("EjectMedia", calls[k].mgr, calls[k].idx, TRUE)

C2_Witness ==
    /\ isoVM.Inserted
    /\ \E k \in CallIdx : calls[k].op = "InsertMedia" /\ calls[k].ok
    /\ Running

\* C3: as long as no resource supporting CD has been discovered, no
\* EjectMedia, InsertMedia or Reset call is issued; and when the discovery
\* ran to its end without finding one, testVirtualMedia returns the error
\* "failed to find CD type virtual media".
C3_NoCompatibleMedia ==
    matches = <<>> =>
        /\ ~Issued("EjectMedia") /\ ~Issued("InsertMedia") /\ ~Issued("Reset")
        /\ (DiscoveryDone /\ pc # "tvm_select") =>
               tvmErr = Err("failed to find CD type virtual media", "nil")

C3_Witness ==
    /\ matches = <<>> /\ DiscoveryDone /\ ManagedBy > 0
    /\ \E k \in CallIdx : calls[k].op = "VirtualMedia" /\ calls[k].ok
    /\ pc = "recv" /\ reported = 1

\* C4: a failed remote call is the last remote call issued; its error is what
\* testVirtualMedia returns; main logs exactly one error, does not end the
\* process on it, leaves the server alone and goes on to wait for a signal.
C4_FailureAborts ==
    /\ \A k \in CallIdx : ~calls[k].ok => k = Len(calls)
    /\ (\E k \in CallIdx : ~calls[k].ok) => tvmErr # NoErr
    /\ exit # "orchestration"
    /\ reported <= 1
    /\ pc \in TvmPcs => reported = 0
    /\ (tvmErr # NoErr /\ Returned) =>
           /\ reported = 1
           /\ pc \in { "notify", "recv", "shutdown", "shutdown_wait", "close", "done" }
           /\ pc \in { "notify", "recv" } => ~inShutdown

C4_Witness ==
    /\ \E k \in CallIdx : calls[k].op = "InsertMedia" /\ ~calls[k].ok
    /\ pc = "recv" /\ Running /\ server = "listening" /\ reported = 1

\* C5: the image is finalized before the server is started, and InsertMedia
\* is issued only while the server is listening.
C5_ServerUpBeforeInsert ==
    /\ server # "none" => isoFile = "current"
    /\ Issued("InsertMedia") => insertSrv = "listening"

\* C6: a termination signal never ends the process while testVirtualMedia
\* is running.
C6_NoSignalExitDuringTvm ==
    exit = "signal" => pc \notin (TvmPcs \ { "tvm_ret" })

\* C7: once the signal has been received in waitForShutDown the process
\* eventually exits, whatever the connections in flight do.
C7_ExitAfterSignal == (pc = "shutdown") ~> (exit # "running")

\* C8 (as claimed): after a failed final eject testVirtualMedia still returns
\* success and nothing is reported to main.
C8_FinalEjectFailureIsSuccess ==
    FinalEjectFailed => (tvmErr = NoErr /\ reported = 0)

\* C8 (amended): a failed final eject is the last remote call (no retry), it
\* follows a successful InsertMedia and Reset, testVirtualMedia returns it as
\* the error "failed to eject media", main logs that one error and the process
\* does not end on it.
C8_FinalEjectFailureReported ==
    FinalEjectFailed =>
        /\ ~calls[Len(calls)].ok /\ calls[Len(calls)].op = "EjectMedia"
        /\ \E j \in CallIdx : calls[j].op = "InsertMedia" /\ calls[j].ok
        /\ \E j \in CallIdx : calls[j].op = "Reset" /\ calls[j].ok
        /\ tvmErr = Err("failed to eject media", "EjectMedia")
        /\ Returned => reported = 1
        /\ exit # "orchestration"

C8_Witness == FinalEjectFailed /\ pc = "recv" /\ Running /\ reported = 1

\* createTestISO has been executed
BuildRan == pc \notin { "config", "mkdir" } /\ (pc # "build" \/ exit = "build")

\* C9: when the image file already exists at outputPath and no I/O fault
\* occurs, the build succeeds and leaves the newly built image there.
C9_CreateOverwrites ==
    (BuildRan /\ hadImage /\ buildFault = "none") =>
        (exit # "build" /\ isoFile = "current")

\* C10: testVirtualMedia is invoked at most once, and only with a non-empty
\* BMC address; with an empty address no remote call is issued, no error is
\* reported and main never is inside testVirtualMedia.
C10_OrchestrationOnlyWhenConfigured ==
    /\ tvmRuns <= 1
    /\ tvmRuns = 1 => BMCAddress # ""
    /\ BMCAddress = "" =>
           /\ calls = <<>> /\ tvmErr = NoErr /\ reported = 0
           /\ pc \notin TvmPcs

C10_Witness ==
    BMCAddress = "" /\ pc = "recv" /\ server = "listening" /\ Running

\* one manager whose only resource supporting CD is its second one
C11_Scenario ==
    /\ ManagedBy = 1 /\ DiscoveryDone
    /\ matches = << <<1, 2>> >>
    /\ ~isoVM.Inserted

\* the remote calls issued after the discovery (Connect, GetComputerSystem,
\* GetManager and VirtualMedia of the one manager)
C11_AfterDiscovery == SubSeq(calls, 5, Len(calls))

C11_Expected ==
    << Call("InsertMedia", 1, 2, TRUE), Call("Reset", 0, 0, TRUE),
       Call("EjectMedia", 1, 2, TRUE) >>

\* C11: with one manager whose second resource is the only one supporting CD
\* and is empty, the second resource is selected; while every call succeeds
\* the calls after the discovery are InsertMedia on it, with the URL built in
\* main, then Reset, then the final EjectMedia, with no EjectMedia before the
\* insert; and the run that issued them all returns nil, nothing reported.
C11_SecondResourceInserted ==
    C11_Scenario =>
        /\ isoVM.mgr = 1 /\ isoVM.idx = 2
        /\ Issued("InsertMedia") => insertURL = BuildISOURL(BaseURL)
        /\ (\A k \in CallIdx : calls[k].ok) =>
               /\ Len(C11_AfterDiscovery) <= 3
               /\ C11_AfterDiscovery = SubSeq(C11_Expected, 1, Len(C11_AfterDiscovery))
               /\ pc \notin { "tvm_select", "tvm_insert" } => Len(C11_AfterDiscovery) >= 1
               /\ Returned => (C11_AfterDiscovery = C11_Expected /\ tvmErr = NoErr /\ reported = 0)

C11_Witness ==
    /\ C11_Scenario /\ pc = "recv" /\ Running
    /\ C11_AfterDiscovery = C11_Expected
    /\ insertURL = URL(TRUE, "host:8080", <<"images", "test-config.iso">>)
    /\ tvmErr = NoErr

\* the eject after the reset has been issued
FinalEjectIssued ==
    \E k \in CallIdx :
        /\ calls[k].op = "EjectMedia"
        /\ \E j \in 1..(k - 1) : calls[j].op = "Reset"

ResetSucceeded == \E k \in CallIdx : calls[k].op = "Reset" /\ calls[k].ok

\* C12: the final eject is issued only after the reset has succeeded and the
\* dwell has elapsed; and in a run started with the dwell disabled, a
\* successful reset is followed by no wait and by no final eject.
C12_DwellAsConfigured ==
    /\ FinalEjectIssued => (slept /\ ResetSucceeded)
    /\ (~dwellEnabled /\ ResetSucceeded) => (~slept /\ ~FinalEjectIssued)

\* C13: the process ends with a non-zero status on a configuration error, a
\* build error and a failed listen call of the server goroutine; it ends with
\* status zero only by main returning from waitForShutDown, after a signal was
\* received and Shutdown called; and once Shutdown has been called the server
\* goroutine never takes its Fatalf path.
C13_ExitStatus ==
    /\ exit \in { "config", "mkdir", "build", "url", "listener", "close" } => ExitCode(exit) # 0
    /\ exit = "config" => pc = "config"
    /\ exit = "build" => pc = "build"
    /\ (server = "failed" /\ ~Running) => ExitCode(exit) # 0
    /\ exit = "listener" => (server = "failed" /\ listen.n = 1 /\ ~inShutdown)
    /\ (~Running /\ ExitCode(exit) = 0) =>
           (exit = "returned" /\ pc = "done" /\ inShutdown /\ notify /\ sigs >= 1)
    /\ exit = "returned" => ExitCode(exit) = 0
    /\ server = "closed" => inShutdown

\* createTestISO returned an error
BuildFailed ==
    /\ BuildRan
    /\ createTestISO(IF hadImage THEN "previous" ELSE "absent", buildFault).err # "nil"

\* C14: when createTestISO returns an error the process ends there: the HTTP
\* server is never started and no remote call is issued.
C14_BuildFailureFatal ==
    BuildFailed =>
        /\ exit = "build" /\ pc = "build"
        /\ server = "none" /\ listen = NoListen
        /\ calls = <<>> /\ tvmRuns = 0

C14_Witness == BuildFailed /\ buildFault = "finalize" /\ exit = "build"

\* C15: whenever a remote call failed, testVirtualMedia returns an error that
\* carries a context naming the failing step, with the failing call as cause.
C15_ErrorsNameTheStep ==
    (\E k \in CallIdx : ~calls[k].ok) =>
        /\ tvmErr # NoErr
        /\ tvmErr.ctx \notin { "", "nil" }
        /\ tvmErr.cause = calls[Len(calls)].op

\* C17: once a resource supporting CD has been found no further manager is
\* looked up or enumerated, so no failed GetManager or VirtualMedia call
\* exists in a run that found one.
C17_DiscoveryStopsAtFirstMatch ==
    \A k \in CallIdx :
        (calls[k].op \in { "GetManager", "VirtualMedia" } /\ matches # <<>>) =>
            /\ calls[k].mgr <= matches[1][1]
            /\ calls[k].ok

Count(op) == Cardinality({ k \in CallIdx : calls[k].op = op })

\* the EjectMedia calls issued before any InsertMedia, and after a Reset
EjectsBeforeInsert ==
    { k \in CallIdx : calls[k].op = "EjectMedia"
                      /\ \A j \in 1..(k - 1) : calls[j].op # "InsertMedia" }
EjectsAfterReset ==
    { k \in CallIdx : calls[k].op = "EjectMedia"
                      /\ \E j \in 1..(k - 1) : calls[j].op = "Reset" }

\* C20: InsertMedia and Reset are issued at most once, EjectMedia at most
\* once before the insert and at most once after the reset and nowhere else;
\* no call follows a failed call; and when testVirtualMedia returns nil its
\* last call is a successful EjectMedia on the selected resource that follows
\* a successful InsertMedia on it and a successful Reset.
C20_SingleAttemptSelfCleaning ==
    /\ Count("InsertMedia") <= 1 /\ Count("Reset") <= 1
    /\ Cardinality(EjectsBeforeInsert) <= 1 /\ Cardinality(EjectsAfterReset) <= 1
    /\ Count("EjectMedia") = Cardinality(EjectsBeforeInsert \cup EjectsAfterReset)
    /\ \A k \in CallIdx : ~calls[k].ok => k = Len(calls)
    /\ ((pc = "tvm_ret" \/ Returned) /\ tvmErr = NoErr) =>
           /\ calls # <<>>
           /\ calls[Len(calls)] = Call("EjectMedia", isoVM.mgr, isoVM.idx, TRUE)
           /\ \E i, j \in CallIdx :
                  /\ i < j /\ j < Len(calls)
                  /\ calls[i] = Call("InsertMedia", isoVM.mgr, isoVM.idx, TRUE)
                  /\ calls[j] = Call("Reset", 0, 0, TRUE)

C20_Witness ==
    /\ Returned /\ tvmErr = NoErr /\ pc = "recv"
    /\ Count("EjectMedia") = 2 /\ Count("InsertMedia") = 1 /\ Count("Reset") = 1

\* C18: for every BASE_URL, a GET of the path of isoURL is answered by the
\* "/images/" route with the image file written at isosDir/test-config.iso.
C18_InsertURLIsServed ==
    fetched # "none" => fetched = "current"

\* the goroutine of startHTTPServer has made its listen call
ListenCalled == server \in { "listening", "failed", "closed" }

\* C19: the listen call is ListenAndServeTLS exactly when both the key file
\* and the certificate file are given, ListenAndServe otherwise, on the
\* address of the configured port either way, and it is made once per run.
C19_ListenMode ==
    /\ listen.n <= 1
    /\ ListenCalled <=> listen.n = 1
    /\ listen.mode = "https" <=>
           (ListenCalled /\ HTTPSKeyFile # "" /\ HTTPSCertFile # "")
    /\ listen.mode = "http" <=>
           (ListenCalled /\ (HTTPSKeyFile = "" \/ HTTPSCertFile = ""))
    /\ ListenCalled => listen.addr = <<":", Port>>

C19_Witness ==
    /\ server = "listening" /\ listen.mode = "http" /\ listen.n = 1
    /\ HTTPSKeyFile # "" /\ HTTPSCertFile = ""
    /\ Port = "8443"

====
